---- MODULE Spec2Model ----
(***************************************************************************)
(* go-eth2-wallet-mpc: the account state machine (lock flag behind a       *)
(* sync.RWMutex, delegated signing) and the key-service client it is bound *)
(* to.  The repository holds three generations of the key-service client:  *)
(*   "cached"  keyService{url, publicKey, version}, Sign(payload, domain)  *)
(*   "urlOnly" keyService{URL},                     Sign(payload, domain)  *)
(*   "keyed"   keyService{URL},                     Sign(key, payload)     *)
(* A client value carries the generation it belongs to.                    *)
(***************************************************************************)
EXTENDS Integers, Sequences, FiniteSets, TLC

\* ---------------------------------------------------------------- bounds
NumProcs == 2
MaxPayloadLen == 1
MaxDomain == 1

Procs == 1..NumProcs
Domains == 0..MaxDomain

\* Payload bytes: an ASCII byte and a byte that is never valid UTF-8.
PayloadBytes == {97, 255}

RECURSIVE SeqsUpTo(_, _)
SeqsUpTo(S, n) ==
    IF n = 0 THEN {<<>>}
    ELSE LET shorter == SeqsUpTo(S, n - 1)
         IN shorter \cup {Append(s, x) : s \in shorter, x \in S}

Payloads == SeqsUpTo(PayloadBytes, MaxPayloadLen)

\* Passphrases, the empty one included.
Passphrases == {<<>>, <<112>>}

\* ------------------------------------------------------------------ keys
\* A public key is modelled by its marshalled bytes (two bytes stand for 48).
NilKey == <<>>
PubKeys == {<<169, 154>>, <<136, 96>>}

\* The key the URL-only key service signs with (it serves a single key).
ServiceKey == <<136, 96>>

HexDigits ==
    <<"0", "1", "2", "3", "4", "5", "6", "7", "8", "9", "a", "b", "c", "d", "e", "f">>

HexByte(b) == <<HexDigits[(b \div 16) + 1], HexDigits[(b % 16) + 1]>>

RECURSIVE Hex(_)
Hex(bytes) ==
    IF bytes = <<>> THEN <<>> ELSE HexByte(Head(bytes)) \o Hex(Tail(bytes))

HexValue(c) == CHOOSE i \in 0..15 : HexDigits[i + 1] = c

IsHexDigit(c) == \E i \in 1..16 : HexDigits[i] = c

RECURSIVE HexDecodeBytes(_)
HexDecodeBytes(s) ==
    IF s = <<>> THEN <<>>
    ELSE <<HexValue(s[1]) * 16 + HexValue(s[2])>> \o HexDecodeBytes(Tail(Tail(s)))

\* hex.DecodeString: odd length or a non-hex character is an error.
HexDecodeString(s) ==
    IF Len(s) % 2 = 1 \/ \E i \in 1..Len(s) : ~IsHexDigit(s[i])
    THEN [err |-> "encoding/hex", bytes |-> <<>>]
    ELSE [err |-> "", bytes |-> HexDecodeBytes(s)]

\* etypes.BLSPublicKeyFromBytes: wrong length or not a curve point is an error.
BLSPublicKeyFromBytes(bytes) ==
    IF Len(bytes) # 2 THEN [err |-> "public key must be 48 bytes", key |-> NilKey]
    ELSE IF bytes \notin PubKeys THEN [err |-> "invalid public key", key |-> NilKey]
    ELSE [err |-> "", key |-> bytes]

\* ------------------------------------------------------------------ URLs
RawURLs == {"http://localhost:8080", "localhost", "", "%bad%"}

\* url.Parse: the scheme is empty for a relative reference.
ParseURL(raw) ==
    CASE raw = "%bad%" -> [err |-> "invalid URL escape", raw |-> raw, scheme |-> ""]
      [] raw = "http://localhost:8080" -> [err |-> "", raw |-> raw, scheme |-> "http"]
      [] OTHER -> [err |-> "", raw |-> raw, scheme |-> ""]

IsAbs(u) == u.scheme # ""

NoURL == [err |-> "", raw |-> "", scheme |-> ""]

\* u.String(): the URL reassembled, which for these inputs is the text parsed.
URLString(u) == u.raw

\* fmt.Errorf("keyService URL '%s' is not absolute", url)
NotAbsolute(text) == "keyService URL '" \o text \o "' is not absolute"

\* ------------------------------------------------------ key-service client
Variants == {"cached", "urlOnly", "keyed"}

NoClient == [variant |-> "none", url |-> NoURL, publicKey |-> NilKey, version |-> 0]

\* newKeyService(url *url.URL) of the cached-key and URL-only clients: the URL
\* must be absolute; the cached key is left unset.
newKeyServiceAbs(variant, u) ==
    IF ~IsAbs(u)
    THEN [err |-> NotAbsolute(URLString(u)), ks |-> NoClient]
    ELSE [err |-> "",
          ks |-> [variant |-> variant, url |-> u, publicKey |-> NilKey, version |-> 0]]

\* newKeyService(raw string) of the keyed client: parses, and checks nothing else.
newKeyServiceRaw(raw) ==
    LET u == ParseURL(raw)
    IN IF u.err # "" THEN [err |-> u.err, ks |-> NoClient]
       ELSE [err |-> "",
             ks |-> [variant |-> "keyed", url |-> u, publicKey |-> NilKey, version |-> 0]]

\* The client an account record's "keyService" string is turned into.
newKeyService(variant, raw) ==
    IF variant = "keyed" THEN newKeyServiceRaw(raw)
    ELSE LET u == ParseURL(raw)
         IN IF u.err # "" THEN [err |-> u.err, ks |-> NoClient]
            ELSE newKeyServiceAbs(variant, u)

\* keyService.UnmarshalJSON of the cached-key client: url, pubkey and version
\* are taken from the binding; the URL is parsed and not checked further.
keyServiceUnmarshal(raw, key, version) ==
    LET u == ParseURL(raw)
    IN IF u.err # "" THEN [err |-> u.err, ks |-> NoClient]
       ELSE [err |-> "",
             ks |-> [variant |-> "cached", url |-> u, publicKey |-> key,
                     version |-> version]]

\* keyService.PublicKey() of the cached-key client: a copy of the cached key,
\* no network call.  Marshal() on an unset key is a nil dereference.
PublicKeyCached(ks) ==
    IF ks.publicKey = NilKey THEN [panic |-> TRUE, key |-> NilKey]
    ELSE [panic |-> FALSE, key |-> ks.publicKey]

\* ------------------------------------------------------------- wire format
NoDomain == 0 - 1

\* fmt.Sprintf("%s", payload) placed in a JSON string: encoding/json replaces
\* every byte that is not valid UTF-8 by U+FFFD, which reads back as EF BF BD.
RECURSIVE JSONStringBytes(_)
JSONStringBytes(bytes) ==
    IF bytes = <<>> THEN <<>>
    ELSE (IF Head(bytes) < 128 THEN <<Head(bytes)>> ELSE <<239, 191, 189>>)
         \o JSONStringBytes(Tail(bytes))

\* A []byte field is marshalled as base64, which reads back as the same bytes.
JSONBytes(bytes) == bytes

KeyPath(key) == <<"/">> \o Hex(key)

SignPath == <<"/", "s", "i", "g", "n">>

NoReq == [method |-> "", host |-> "", path |-> <<>>, payload |-> <<>>, domain |-> NoDomain]

\* The POST of keyService.Sign(payload, domain), cached-key client.
SignRequestCached(ks, key, payload, domain) ==
    [method |-> "POST", host |-> ks.url.raw, path |-> KeyPath(PublicKeyCached(ks).key),
     payload |-> JSONStringBytes(payload), domain |-> domain]

\* The POST of keyService.Sign(payload, domain), URL-only client.
SignRequestURLOnly(ks, key, payload, domain) ==
    [method |-> "POST", host |-> ks.url.raw, path |-> SignPath,
     payload |-> JSONStringBytes(payload), domain |-> domain]

\* The POST of keyService.Sign(key, payload), keyed client: no domain field.
SignRequestKeyed(ks, key, payload, domain) ==
    [method |-> "POST", host |-> ks.url.raw, path |-> KeyPath(key),
     payload |-> JSONBytes(payload), domain |-> NoDomain]

SignRequest(ks, key, payload, domain) ==
    CASE ks.variant = "cached" -> SignRequestCached(ks, key, payload, domain)
      [] ks.variant = "urlOnly" -> SignRequestURLOnly(ks, key, payload, domain)
      [] OTHER -> SignRequestKeyed(ks, key, payload, domain)

\* ---------------------------------------------------------- the key service
NoSig == [kind |-> "none", key |-> NilKey, payload |-> <<>>, domain |-> NoDomain]

\* The remote service signs the payload it received with the key the path
\* names (its own key on the URL-only protocol), under the domain of the
\* request; a request without a domain field decodes to the zero domain.
ServiceSign(variant, r) ==
    [kind |-> "sig",
     key |-> IF variant = "urlOnly" THEN ServiceKey
             ELSE IF \E k \in PubKeys : KeyPath(k) = r.path
                  THEN CHOOSE k \in PubKeys : KeyPath(k) = r.path
                  ELSE NilKey,
     payload |-> r.payload,
     domain |-> IF r.domain = NoDomain THEN 0 ELSE r.domain]

\* signature.Verify(payload, pubkey, domain)
Verify(sig, payload, key, domain) ==
    /\ sig.kind = "sig"
    /\ sig.key = key
    /\ sig.payload = payload
    /\ sig.domain = domain

\* sign, sig: the "sign" member of a signing answer; pk: the text of the "pk"
\* member of a public-key answer.
NoResp ==
    [transport |-> FALSE, status |-> 0, json |-> FALSE, sign |-> "", sig |-> NoSig,
     pk |-> <<>>]

Statuses == {200, 500}

\* What may come back for request r: a transport failure, or a response with
\* a status and a body that is not JSON, or JSON whose signature field is
\* empty, not hex, hex of bytes that are no signature, or the signature.
ServiceResponses(variant, r) ==
    {[NoResp EXCEPT !.transport = TRUE]}
    \cup {[NoResp EXCEPT !.status = s] : s \in Statuses}
    \cup {[NoResp EXCEPT !.status = s, !.json = TRUE, !.sign = k]
            : s \in Statuses, k \in {"empty", "nothex", "badsig"}}
    \cup {[NoResp EXCEPT !.status = s, !.json = TRUE, !.sign = "sig",
                         !.sig = ServiceSign(variant, r)] : s \in Statuses}

NoResult == [err |-> "", sig |-> NoSig, value |-> FALSE, key |-> NilKey]

Failed(e) == [err |-> e, sig |-> NoSig, value |-> FALSE, key |-> NilKey]

\* keyService.Sign after the POST, cached-key and URL-only clients: the status
\* is not looked at.
ParseSignResponse(resp) ==
    IF resp.transport THEN Failed("transport")
    ELSE IF ~resp.json THEN Failed("json")
    ELSE IF resp.sign = "empty" THEN Failed("missing signature")
    ELSE IF resp.sign = "nothex" THEN Failed("encoding/hex")
    ELSE IF resp.sign = "badsig" THEN Failed("invalid signature")
    ELSE [NoResult EXCEPT !.sig = resp.sig]

\* keyService.Sign after the POST, keyed client: the decoded bytes are returned
\* as they are, an empty or ill-formed signature included.
ParseSignResponseKeyed(resp) ==
    IF resp.transport THEN Failed("transport")
    ELSE IF ~resp.json THEN Failed("json")
    ELSE IF resp.sign = "nothex" THEN Failed("encoding/hex")
    ELSE IF resp.sign = "sig" THEN [NoResult EXCEPT !.sig = resp.sig]
    ELSE [NoResult EXCEPT !.sig = [NoSig EXCEPT !.kind = resp.sign]]

SignResult(ks, resp) ==
    IF ks.variant = "keyed" THEN ParseSignResponseKeyed(resp) ELSE ParseSignResponse(resp)

\* ----------------------------------------------------- keyService.PublicKey
RootPath == <<"/">>

\* http.Get(url.String()): a GET of the endpoint itself.
PublicKeyRequest(ks) ==
    [method |-> "GET", host |-> ks.url.raw, path |-> RootPath, payload |-> <<>>,
     domain |-> NoDomain]

\* What may come back for the GET: a transport failure, or a response with a
\* status and a body that is not JSON, or JSON whose "pk" is empty, not hex,
\* hex of too few bytes, or the hex of the service's key.
KeyResponses ==
    {[NoResp EXCEPT !.transport = TRUE]}
    \cup {[NoResp EXCEPT !.status = s] : s \in Statuses}
    \cup {[NoResp EXCEPT !.status = s, !.json = TRUE, !.pk = t]
            : s \in Statuses, t \in {<<>>, <<"z", "z">>, Hex(<<1>>), Hex(ServiceKey)}}

\* keyService.PublicKey() of the URL-only client after the GET: the body is
\* decoded, "pk" must not be empty, must be hex and must be a key.
ParsePublicKeyResponse(resp) ==
    IF resp.transport THEN Failed("transport")
    ELSE IF ~resp.json THEN Failed("json")
    ELSE IF resp.pk = <<>> THEN Failed("missing public key")
    ELSE LET dec == HexDecodeString(resp.pk)
             key == BLSPublicKeyFromBytes(dec.bytes)
         IN IF dec.err # "" THEN Failed(dec.err)
            ELSE IF key.err # "" THEN Failed(key.err)
            ELSE [NoResult EXCEPT !.key = key.key]

\* ------------------------------------------------------- JSON account record
\* A decoded JSON value: its type, its text, or its number in halves (so that
\* a fractional number can be told from a whole one).
Str(s) == [t |-> "string", s |-> s, half |-> 0]

Num(half) == [t |-> "number", s |-> "", half |-> half]

Bool(s) == [t |-> "bool", s |-> s, half |-> 0]

GoodUUID == "c9958061-63d4-4a80-bcf3-25f3dda22340"

\* uuid.Parse
ParseUUID(s) ==
    IF s = GoodUUID THEN [err |-> "", id |-> s] ELSE [err |-> "invalid UUID length", id |-> ""]

\* uint(version) of a float64: the fraction is dropped.
Uint(half) == half \div 2

\* The one keystore scheme accounts support.
KeystoreVersion == 4

\* ------------------------------------------------------------------ account
\* Faulty variant: an account that starts unlocked.
newAccountUnlocked ==
    [id |-> "", name |-> "", publicKey |-> NilKey, version |-> 0,
     unlocked |-> TRUE, keyService |-> NoClient]

\* newAccount(): a fresh mutex and zero values; the lock flag is false.
newAccount ==
    [id |-> "", name |-> "", publicKey |-> NilKey, version |-> 0,
     unlocked |-> FALSE, keyService |-> NoClient]

\* new(sync.RWMutex): w is the writer that has announced itself (0: none),
\* writing whether it holds the lock, readers the holders of the read side.
NewRWMutex == [w |-> 0, writing |-> FALSE, readers |-> {}]

Has(v, f) == f \in DOMAIN v

\* account.UnmarshalJSON: uuid (else the legacy id), name, pubkey, version,
\* version = 4, keyService, the first defect reported.  The lock flag and the
\* mutex are not touched.
UnmarshalID(a, v) ==
    LET f == IF Has(v, "uuid") THEN "uuid" ELSE "id"
    IN IF ~Has(v, "uuid") /\ ~Has(v, "id") THEN [err |-> "account ID missing", a |-> a]
       ELSE IF v[f].t # "string" THEN [err |-> "account ID invalid", a |-> a]
       ELSE IF ParseUUID(v[f].s).err # "" THEN [err |-> ParseUUID(v[f].s).err, a |-> a]
       ELSE [err |-> "", a |-> [a EXCEPT !.id = ParseUUID(v[f].s).id]]

UnmarshalName(a, v) ==
    IF ~Has(v, "name") THEN [err |-> "account name missing", a |-> a]
    ELSE IF v["name"].t # "string" THEN [err |-> "account name invalid", a |-> a]
    ELSE [err |-> "", a |-> [a EXCEPT !.name = v["name"].s]]

UnmarshalPubKey(a, v) ==
    IF ~Has(v, "pubkey") THEN [err |-> "account pubkey missing", a |-> a]
    ELSE IF v["pubkey"].t # "string" THEN [err |-> "account pubkey invalid", a |-> a]
    ELSE LET dec == HexDecodeString(v["pubkey"].s)
             key == BLSPublicKeyFromBytes(dec.bytes)
         IN IF dec.err # "" THEN [err |-> dec.err, a |-> a]
            ELSE IF key.err # "" THEN [err |-> key.err, a |-> [a EXCEPT !.publicKey = NilKey]]
            ELSE [err |-> "", a |-> [a EXCEPT !.publicKey = key.key]]

UnmarshalVersion(a, v) ==
    IF ~Has(v, "version") THEN [err |-> "account version missing", a |-> a]
    ELSE IF v["version"].t # "number" THEN [err |-> "account version invalid", a |-> a]
    ELSE LET b == [a EXCEPT !.version = Uint(v["version"].half)]
         IN IF b.version = KeystoreVersion THEN [err |-> "", a |-> b]
            ELSE [err |-> "unsupported keystore version", a |-> b]

UnmarshalKeyService(variant, a, v) ==
    IF ~Has(v, "keyService") THEN [err |-> "account keyService missing", a |-> a]
    ELSE IF v["keyService"].t # "string" THEN [err |-> "account keyService invalid", a |-> a]
    ELSE LET made == newKeyService(variant, v["keyService"].s)
         IN IF made.err # "" THEN [err |-> made.err, a |-> a]
            ELSE [err |-> "", a |-> [a EXCEPT !.keyService = made.ks]]

UnmarshalJSON(variant, a, v) ==
    LET r1 == UnmarshalID(a, v)
        r2 == UnmarshalName(r1.a, v)
        r3 == UnmarshalPubKey(r2.a, v)
        r4 == UnmarshalVersion(r3.a, v)
        r5 == UnmarshalKeyService(variant, r4.a, v)
    IN IF r1.err # "" THEN r1
       ELSE IF r2.err # "" THEN r2
       ELSE IF r3.err # "" THEN r3
       ELSE IF r4.err # "" THEN r4
       ELSE r5

\* deserializeAccount(w, data): newAccount(), then the record is unmarshalled
\* into it; on an error no account is returned.
deserializeAccount(variant, v) == UnmarshalJSON(variant, newAccount, v)

\* Wallet.CreateAccount: newAccount() filled with a generated id, the name,
\* the key the key service generated, scheme 4 and the wallet's client.
CreateAccountWith(name, key, ks) ==
    [newAccount EXCEPT !.id = GoodUUID, !.name = name, !.publicKey = key,
                       !.version = KeystoreVersion, !.keyService = ks]

\* account.IsUnlocked(): the flag, read as it is.
IsUnlocked(a) == a.unlocked

\* account.Sign's call into its client: the account's key and the data; the
\* domain argument of Sign is not passed on.
ForwardSign(a, data, domain) == [key |-> a.publicKey, payload |-> data, domain |-> NoDomain]

\* Stored account records: well-formed ones (current and legacy id field),
\* one with another scheme version and one without a keyService binding.
RecordFor(idField, key, half, url) ==
    (idField :> Str(GoodUUID)) @@
    [f \in {"name", "pubkey", "version", "keyService"} |->
        CASE f = "name" -> Str("test account")
          [] f = "pubkey" -> Str(Hex(key))
          [] f = "version" -> Num(half)
          [] OTHER -> Str(url)]

StoredRecords ==
    {RecordFor("uuid", <<169, 154>>, 8, "http://localhost:8080"),
     RecordFor("id", <<136, 96>>, 8, "http://localhost:8080"),
     RecordFor("uuid", <<169, 154>>, 6, "http://localhost:8080"),
     [f \in {"uuid", "name", "pubkey", "version"} |->
        RecordFor("uuid", <<169, 154>>, 8, "")[f]]}

\* -------------------------------------------------------------------- state
\* The record shape with nothing in it.
NoShape ==
    [id |-> "missing", name |-> "missing", pubkey |-> "missing", version |-> "missing",
     keyService |-> "missing"]

NoArg ==
    [kind |-> "none", variant |-> "none", raw |-> "", shape |-> NoShape, a |-> newAccount]

NoOut == [kind |-> "none", val |-> ""]

\* The wallet's own store and a second one.
StoreIds == {1, 2}

\* A store: the wallet headers and the account records it holds.
EmptyStore == [wallets |-> {}, accounts |-> {}]

\* uuids: how many account UUIDs the wallet has handed out.
NoWallet == [id |-> "", name |-> "", nextaccount |-> 0, uuids |-> 0, home |-> 0]

NoBundle == [wallet |-> [id |-> "", name |-> "", nextaccount |-> 0], accounts |-> {}]

NoDump == [sealed |-> FALSE, data |-> NoBundle, pass |-> <<>>]

\* before, after: the target store around the operation; ids: the account IDs
\* of the wallet the operation returned; exported: those of the wallet when
\* the dump was made.
NoOp ==
    [op |-> "none", name |-> "", store |-> 0, pass |-> <<>>, held |-> FALSE, err |-> "",
     before |-> EmptyStore, after |-> EmptyStore, ids |-> {}, exported |-> {}]

VARIABLES
    account,       \* the account object (its lock flag included)
    origin,        \* "none", "created" or "deserialized": how it was obtained
    mutex,         \* account.mutex
    client,        \* a key-service client used directly
    pc,            \* each caller's position
    call,          \* each caller's operation and arguments
    gate,          \* what a.IsUnlocked() returned inside the caller's Sign
    reqs,          \* the HTTP requests the caller's current call has sent
    resp,          \* the response the caller's request got
    result,        \* what the caller's call returned
    unlockedOnce,  \* whether some Unlock has set the flag
    fetched,       \* the key the client's first successful PublicKey() returned
    arg,           \* the input a serialization function is applied to
    out,           \* what the function made of it
    wallet,        \* the wallet object
    stores,        \* the records each store holds
    dump,          \* the last exported bundle
    lastOp         \* the last wallet operation: its arguments and its outcome

ext == <<fetched, arg, out, wallet, stores, dump, lastOp>>

vars == <<account, origin, mutex, client, pc, call, gate, reqs, resp, result, unlockedOnce,
          ext>>

\* cached: the key the client had fetched when the call began.
NoCall ==
    [op |-> "none", key |-> NilKey, data |-> <<>>, domain |-> 0, pass |-> <<>>,
     cached |-> NilKey, fault |-> {}]

locals == <<call, gate, reqs, resp, result>>

\* An unrecovered panic ends the whole program.
Running == \A q \in Procs : pc[q] # "panicked"

InitProgram ==
    /\ account = newAccount
    /\ origin = "none"
    /\ mutex = NewRWMutex
    /\ client = NoClient
    /\ pc = [p \in Procs |-> "idle"]
    /\ call = [p \in Procs |-> NoCall]
    /\ gate = [p \in Procs |-> "unread"]
    /\ reqs = [p \in Procs |-> <<>>]
    /\ resp = [p \in Procs |-> NoResp]
    /\ result = [p \in Procs |-> NoResult]
    /\ unlockedOnce = FALSE
    /\ fetched = NilKey
    /\ wallet = NoWallet
    /\ stores = [s \in StoreIds |-> EmptyStore]
    /\ dump = NoDump
    /\ lastOp = NoOp

Init ==
    /\ InitProgram
    /\ arg = NoArg
    /\ out = NoOut

Quiet == \A q \in Procs : pc[q] = "idle"

\* -------------------------------------------------- obtaining the account
GoodURL == "http://localhost:8080"

\* The client a wallet hands to the accounts it creates.
WalletClients ==
    {newKeyService(v, GoodURL).ks : v \in {"urlOnly", "keyed"}}
    \cup {keyServiceUnmarshal(GoodURL, k, 1).ks : k \in PubKeys}

CreateAccount ==
    /\ origin = "none"
    /\ \E key \in PubKeys, ks \in WalletClients :
          account' = CreateAccountWith("test account", key, ks)
    /\ origin' = "created"
    /\ mutex' = NewRWMutex
    /\ UNCHANGED <<client, pc, locals, unlockedOnce, ext>>

DeserializeAccount ==
    /\ origin = "none"
    /\ \E variant \in Variants, v \in StoredRecords :
          LET r == deserializeAccount(variant, v)
          IN IF r.err # ""
             THEN UNCHANGED <<account, origin>>
             ELSE account' = r.a /\ origin' = "deserialized"
    /\ mutex' = NewRWMutex
    /\ UNCHANGED <<client, pc, locals, unlockedOnce, ext>>

\* ------------------------------------------------------------ sync.RWMutex
\* RLock returns at once unless a writer has announced itself.
CanRLock(m) == m.w = 0

RLocked(m, p) == [m EXCEPT !.readers = @ \cup {p}]

RUnlocked(m, p) == [m EXCEPT !.readers = @ \ {p}]

\* Lock first takes the writers' mutex and announces the writer, which stops
\* new readers; it returns when the readers that were active have left.
CanAnnounce(m) == m.w = 0

Announced(m, p) == [m EXCEPT !.w = p]

CanWrite(m, p) == m.w = p /\ m.readers = {}

WriteLocked(m, p) == [m EXCEPT !.writing = TRUE]

WriteUnlocked(m, p) == [m EXCEPT !.w = 0, !.writing = FALSE]

\* ------------------------------------------------------------ account.Lock
CallLock(p) ==
    /\ Running /\ origin # "none" /\ pc[p] = "idle"
    /\ call' = [call EXCEPT ![p] = [NoCall EXCEPT !.op = "Lock"]]
    /\ pc' = [pc EXCEPT ![p] = "Lock_announce"]
    /\ UNCHANGED <<account, origin, mutex, client, gate, reqs, resp, result, unlockedOnce, ext>>

LockAnnounce(p) ==
    /\ Running /\ pc[p] = "Lock_announce"
    /\ CanAnnounce(mutex)
    /\ mutex' = Announced(mutex, p)
    /\ pc' = [pc EXCEPT ![p] = "Lock_wait"]
    /\ UNCHANGED <<account, origin, client, locals, unlockedOnce, ext>>

LockAcquire(p) ==
    /\ Running /\ pc[p] = "Lock_wait"
    /\ CanWrite(mutex, p)
    /\ mutex' = WriteLocked(mutex, p)
    /\ pc' = [pc EXCEPT ![p] = "Lock_write"]
    /\ UNCHANGED <<account, origin, client, locals, unlockedOnce, ext>>

\* Faulty variant: a Lock that flips the flag.
LockWriteToggles(p) ==
    /\ Running /\ pc[p] = "Lock_write"
    /\ account' = [account EXCEPT !.unlocked = ~account.unlocked]
    /\ pc' = [pc EXCEPT ![p] = "Lock_release"]
    /\ UNCHANGED <<origin, mutex, client, locals, unlockedOnce, ext>>

\* a.unlocked = false
LockWrite(p) ==
    /\ Running /\ pc[p] = "Lock_write"
    /\ account' = [account EXCEPT !.unlocked = FALSE]
    /\ pc' = [pc EXCEPT ![p] = "Lock_release"]
    /\ UNCHANGED <<origin, mutex, client, locals, unlockedOnce, ext>>

LockRelease(p) ==
    /\ Running /\ pc[p] = "Lock_release"
    /\ mutex' = WriteUnlocked(mutex, p)
    /\ pc' = [pc EXCEPT ![p] = "returned"]
    /\ UNCHANGED <<account, origin, client, locals, unlockedOnce, ext>>

\* ---------------------------------------------------------- account.Unlock
CallUnlock(p) ==
    /\ Running /\ origin # "none" /\ pc[p] = "idle"
    /\ \E pass \in Passphrases :
          call' = [call EXCEPT ![p] = [NoCall EXCEPT !.op = "Unlock", !.pass = pass]]
    /\ pc' = [pc EXCEPT ![p] = "Unlock_announce"]
    /\ UNCHANGED <<account, origin, mutex, client, gate, reqs, resp, result, unlockedOnce, ext>>

UnlockAnnounce(p) ==
    /\ Running /\ pc[p] = "Unlock_announce"
    /\ CanAnnounce(mutex)
    /\ mutex' = Announced(mutex, p)
    /\ pc' = [pc EXCEPT ![p] = "Unlock_wait"]
    /\ UNCHANGED <<account, origin, client, locals, unlockedOnce, ext>>

UnlockAcquire(p) ==
    /\ Running /\ pc[p] = "Unlock_wait"
    /\ CanWrite(mutex, p)
    /\ mutex' = WriteLocked(mutex, p)
    /\ pc' = [pc EXCEPT ![p] = "Unlock_write"]
    /\ UNCHANGED <<account, origin, client, locals, unlockedOnce, ext>>

\* Faulty variant: an Unlock that refuses the empty passphrase.
UnlockWriteChecksPassphrase(p) ==
    /\ Running /\ pc[p] = "Unlock_write"
    /\ IF call[p].pass = <<>>
       THEN /\ result' = [result EXCEPT ![p] = Failed("incorrect passphrase")]
            /\ UNCHANGED <<account, unlockedOnce>>
       ELSE /\ account' = [account EXCEPT !.unlocked = TRUE]
            /\ result' = [result EXCEPT ![p] = NoResult]
            /\ unlockedOnce' = TRUE
    /\ pc' = [pc EXCEPT ![p] = "Unlock_release"]
    /\ UNCHANGED <<origin, mutex, client, call, gate, reqs, resp, ext>>

\* a.unlocked = true; return nil: the passphrase is not looked at.
UnlockWrite(p) ==
    /\ Running /\ pc[p] = "Unlock_write"
    /\ account' = [account EXCEPT !.unlocked = TRUE]
    /\ result' = [result EXCEPT ![p] = NoResult]
    /\ unlockedOnce' = TRUE
    /\ pc' = [pc EXCEPT ![p] = "Unlock_release"]
    /\ UNCHANGED <<origin, mutex, client, call, gate, reqs, resp, ext>>

UnlockRelease(p) ==
    /\ Running /\ pc[p] = "Unlock_release"
    /\ mutex' = WriteUnlocked(mutex, p)
    /\ pc' = [pc EXCEPT ![p] = "returned"]
    /\ UNCHANGED <<account, origin, client, locals, unlockedOnce, ext>>

\* ------------------------------------------------------ account.IsUnlocked
CallIsUnlocked(p) ==
    /\ Running /\ origin # "none" /\ pc[p] = "idle"
    /\ call' = [call EXCEPT ![p] = [NoCall EXCEPT !.op = "IsUnlocked"]]
    /\ pc' = [pc EXCEPT ![p] = "IsUnlocked_read"]
    /\ UNCHANGED <<account, origin, mutex, client, gate, reqs, resp, result, unlockedOnce, ext>>

\* return a.unlocked: no lock is taken.
IsUnlockedRead(p) ==
    /\ Running /\ pc[p] = "IsUnlocked_read"
    /\ result' = [result EXCEPT ![p] = [NoResult EXCEPT !.value = IsUnlocked(account)]]
    /\ pc' = [pc EXCEPT ![p] = "returned"]
    /\ UNCHANGED <<account, origin, mutex, client, call, gate, reqs, resp, unlockedOnce, ext>>

\* ------------------------------------------------------------ account.Sign
CallSign(p) ==
    /\ Running /\ origin # "none" /\ pc[p] = "idle"
    /\ \E data \in Payloads, domain \in Domains :
          call' = [call EXCEPT ![p] = [NoCall EXCEPT !.op = "Sign", !.data = data,
                                                     !.domain = domain]]
    /\ pc' = [pc EXCEPT ![p] = "Sign_rlock"]
    /\ UNCHANGED <<account, origin, mutex, client, gate, reqs, resp, result, unlockedOnce, ext>>

\* Faulty variant: a Sign that takes the lock exclusively.
SignRLockExclusive(p) ==
    /\ Running /\ pc[p] = "Sign_rlock"
    /\ CanRLock(mutex) /\ mutex.readers = {}
    /\ mutex' = RLocked(mutex, p)
    /\ pc' = [pc EXCEPT ![p] = "Sign_gate"]
    /\ UNCHANGED <<account, origin, client, locals, unlockedOnce, ext>>

\* Faulty variant: a read lock that goes past a writer that is waiting.
SignRLockPastWriter(p) ==
    /\ Running /\ pc[p] = "Sign_rlock"
    /\ ~mutex.writing
    /\ mutex' = RLocked(mutex, p)
    /\ pc' = [pc EXCEPT ![p] = "Sign_gate"]
    /\ UNCHANGED <<account, origin, client, locals, unlockedOnce, ext>>

\* a.mutex.RLock()
SignRLock(p) ==
    /\ Running /\ pc[p] = "Sign_rlock"
    /\ CanRLock(mutex)
    /\ mutex' = RLocked(mutex, p)
    /\ pc' = [pc EXCEPT ![p] = "Sign_gate"]
    /\ UNCHANGED <<account, origin, client, locals, unlockedOnce, ext>>

\* Faulty variant: a Sign whose gate does not stop a locked account.
SignGateNoCheck(p) ==
    /\ Running /\ pc[p] = "Sign_gate"
    /\ gate' = [gate EXCEPT ![p] = IF IsUnlocked(account) THEN "unlocked" ELSE "locked"]
    /\ pc' = [pc EXCEPT ![p] = "ks_Sign"]
    /\ UNCHANGED <<account, origin, mutex, client, call, reqs, resp, result, unlockedOnce, ext>>

\* Faulty variant: a Sign that gives the read lock back before it calls the client.
SignGateReleasesEarly(p) ==
    /\ Running /\ pc[p] = "Sign_gate"
    /\ IF IsUnlocked(account)
       THEN /\ gate' = [gate EXCEPT ![p] = "unlocked"]
            /\ mutex' = RUnlocked(mutex, p)
            /\ pc' = [pc EXCEPT ![p] = "ks_Sign"]
            /\ UNCHANGED result
       ELSE /\ gate' = [gate EXCEPT ![p] = "locked"]
            /\ result' = [result EXCEPT ![p] = Failed("cannot sign when account is locked")]
            /\ UNCHANGED mutex
            /\ pc' = [pc EXCEPT ![p] = "Sign_runlock"]
    /\ UNCHANGED <<account, origin, client, call, reqs, resp, unlockedOnce, ext>>

\* Faulty variant: a Sign whose gate takes the read lock a second time.
SignGateRLocksAgain(p) ==
    /\ Running /\ pc[p] = "Sign_gate"
    /\ CanRLock(mutex)
    /\ IF IsUnlocked(account)
       THEN /\ gate' = [gate EXCEPT ![p] = "unlocked"]
            /\ pc' = [pc EXCEPT ![p] = "ks_Sign"]
            /\ UNCHANGED result
       ELSE /\ gate' = [gate EXCEPT ![p] = "locked"]
            /\ result' = [result EXCEPT ![p] = Failed("cannot sign when account is locked")]
            /\ pc' = [pc EXCEPT ![p] = "Sign_runlock"]
    /\ UNCHANGED <<account, origin, mutex, client, call, reqs, resp, unlockedOnce, ext>>

\* if !a.IsUnlocked() { return nil, errors.New(...) }; otherwise the call
\* goes on to the client, the read lock still held.
SignGate(p) ==
    /\ Running /\ pc[p] = "Sign_gate"
    /\ IF IsUnlocked(account)
       THEN /\ gate' = [gate EXCEPT ![p] = "unlocked"]
            /\ pc' = [pc EXCEPT ![p] = "ks_Sign"]
            /\ UNCHANGED result
       ELSE /\ gate' = [gate EXCEPT ![p] = "locked"]
            /\ result' = [result EXCEPT ![p] = Failed("cannot sign when account is locked")]
            /\ pc' = [pc EXCEPT ![p] = "Sign_runlock"]
    /\ UNCHANGED <<account, origin, mutex, client, call, reqs, resp, unlockedOnce, ext>>

\* defer a.mutex.RUnlock(), then the return.
SignRUnlock(p) ==
    /\ Running /\ pc[p] = "Sign_runlock"
    /\ mutex' = RUnlocked(mutex, p)
    /\ pc' = [pc EXCEPT ![p] = "returned"]
    /\ UNCHANGED <<account, origin, client, locals, unlockedOnce, ext>>

\* --------------------------------------------------------- keyService.Sign
\* The client a caller's Sign runs on, and the arguments it was given.
ClientOf(p) == IF call[p].op = "Sign" THEN account.keyService ELSE client

SignArgs(p) ==
    IF call[p].op = "Sign" THEN ForwardSign(account, call[p].data, call[p].domain)
    ELSE [key |-> call[p].key, payload |-> call[p].data, domain |-> call[p].domain]

\* A direct call of the client's Sign.
CallClientSign(p) ==
    /\ Running /\ client.variant # "none" /\ pc[p] = "idle"
    /\ \E key \in PubKeys, data \in Payloads, domain \in Domains :
          call' = [call EXCEPT ![p] =
                      [NoCall EXCEPT !.op = "ClientSign", !.data = data,
                          !.key = IF client.variant = "keyed" THEN key ELSE NilKey,
                          !.domain = IF client.variant = "keyed" THEN 0 ELSE domain]]
    /\ pc' = [pc EXCEPT ![p] = "ks_Sign"]
    /\ UNCHANGED <<account, origin, mutex, client, gate, reqs, resp, result, unlockedOnce, ext>>

\* The request is built and posted.  The cached-key client first copies its
\* key, which panics when the key was never set.
KsPost(p) ==
    /\ Running /\ pc[p] = "ks_Sign"
    /\ LET ks == ClientOf(p)
           a == SignArgs(p)
       IN IF ks.variant = "cached" /\ PublicKeyCached(ks).panic
          THEN /\ pc' = [pc EXCEPT ![p] = "panicked"]
               /\ UNCHANGED reqs
          ELSE /\ reqs' = [reqs EXCEPT ![p] =
                              Append(@, SignRequest(ks, a.key, a.payload, a.domain))]
               /\ pc' = [pc EXCEPT ![p] = "ks_await"]
    /\ UNCHANGED <<account, origin, mutex, client, call, gate, resp, result, unlockedOnce, ext>>

\* The key service (or the network) answers the request in flight; a request
\* to a URL without a scheme never leaves the process.
ServiceRespond(p) ==
    /\ Running /\ pc[p] = "ks_await"
    /\ \E r \in ServiceResponses(ClientOf(p).variant, reqs[p][Len(reqs[p])]) :
          /\ IsAbs(ClientOf(p).url) \/ r.transport
          /\ resp' = [resp EXCEPT ![p] = r]
    /\ pc' = [pc EXCEPT ![p] = "ks_parse"]
    /\ UNCHANGED <<account, origin, mutex, client, call, gate, reqs, result, unlockedOnce, ext>>

\* Faulty variant: a Sign that posts once more after a failure.
KsReturnRetry(p) ==
    /\ Running /\ pc[p] = "ks_parse"
    /\ result' = [result EXCEPT ![p] = SignResult(ClientOf(p), resp[p])]
    /\ pc' = [pc EXCEPT ![p] =
                 IF SignResult(ClientOf(p), resp[p]).err # "" /\ Len(reqs[p]) < 2
                 THEN "ks_Sign"
                 ELSE IF call[p].op = "Sign" THEN "Sign_runlock" ELSE "returned"]
    /\ UNCHANGED <<account, origin, mutex, client, call, gate, reqs, resp, unlockedOnce, ext>>

\* Faulty variant: a Sign that locks the account when the key service fails.
KsReturnLocksOnFailure(p) ==
    /\ Running /\ pc[p] = "ks_parse"
    /\ result' = [result EXCEPT ![p] = SignResult(ClientOf(p), resp[p])]
    /\ account' = IF call[p].op = "Sign" /\ SignResult(ClientOf(p), resp[p]).err # ""
                  THEN [account EXCEPT !.unlocked = FALSE]
                  ELSE account
    /\ pc' = [pc EXCEPT ![p] = IF call[p].op = "Sign" THEN "Sign_runlock" ELSE "returned"]
    /\ UNCHANGED <<origin, mutex, client, call, gate, reqs, resp, unlockedOnce, ext>>

\* The response is read and decoded and Sign returns, to account.Sign when
\* that made the call.
KsReturn(p) ==
    /\ Running /\ pc[p] = "ks_parse"
    /\ result' = [result EXCEPT ![p] = SignResult(ClientOf(p), resp[p])]
    /\ pc' = [pc EXCEPT ![p] = IF call[p].op = "Sign" THEN "Sign_runlock" ELSE "returned"]
    /\ UNCHANGED <<account, origin, mutex, client, call, gate, reqs, resp, unlockedOnce, ext>>

\* The caller takes the result and is free for its next call.
Finish(p) ==
    /\ Running /\ pc[p] = "returned"
    /\ pc' = [pc EXCEPT ![p] = "idle"]
    /\ call' = [call EXCEPT ![p] = NoCall]
    /\ gate' = [gate EXCEPT ![p] = "unread"]
    /\ reqs' = [reqs EXCEPT ![p] = <<>>]
    /\ resp' = [resp EXCEPT ![p] = NoResp]
    /\ result' = [result EXCEPT ![p] = NoResult]
    /\ UNCHANGED <<account, origin, mutex, client, unlockedOnce, ext>>

\* ------------------------------------------------- obtaining a bare client
NewClient ==
    /\ client.variant = "none" /\ Quiet
    /\ \E made \in {newKeyService(v, raw) : v \in Variants, raw \in RawURLs}
                   \cup {keyServiceUnmarshal(raw, k, 1) : raw \in RawURLs, k \in PubKeys} :
          client' = made.ks
    /\ UNCHANGED <<account, origin, mutex, pc, locals, unlockedOnce, ext>>

\* ----------------------------------------------- calls of keyService.PublicKey
CallPublicKey(p) ==
    /\ Running /\ client.variant \in {"cached", "urlOnly"} /\ pc[p] = "idle"
    /\ call' = [call EXCEPT ![p] = [NoCall EXCEPT !.op = "PublicKey", !.cached = fetched]]
    /\ pc' = [pc EXCEPT ![p] = "pk_call"]
    /\ UNCHANGED <<account, origin, mutex, client, gate, reqs, resp, result, unlockedOnce, ext>>

\* The cached-key client: a copy of the key it holds, no request; a nil
\* dereference when it holds none.
PkCached(p) ==
    /\ Running /\ pc[p] = "pk_call" /\ client.variant = "cached"
    /\ IF PublicKeyCached(client).panic
       THEN /\ pc' = [pc EXCEPT ![p] = "panicked"]
            /\ UNCHANGED <<result, fetched>>
       ELSE /\ result' = [result EXCEPT ![p] =
                              [NoResult EXCEPT !.key = PublicKeyCached(client).key]]
            /\ fetched' = IF fetched = NilKey THEN PublicKeyCached(client).key ELSE fetched
            /\ pc' = [pc EXCEPT ![p] = "returned"]
    /\ UNCHANGED <<account, origin, mutex, client, call, gate, reqs, resp, unlockedOnce>>
    /\ UNCHANGED <<arg, out, wallet, stores, dump, lastOp>>

\* The URL-only client: the GET is sent, on every call.
PkGet(p) ==
    /\ Running /\ pc[p] = "pk_call" /\ client.variant = "urlOnly"
    /\ reqs' = [reqs EXCEPT ![p] = Append(@, PublicKeyRequest(client))]
    /\ pc' = [pc EXCEPT ![p] = "pk_await"]
    /\ UNCHANGED <<account, origin, mutex, client, call, gate, resp, result, unlockedOnce, ext>>

\* The key service (or the network) answers the GET.
PkRespond(p) ==
    /\ Running /\ pc[p] = "pk_await"
    /\ \E r \in KeyResponses :
          /\ IsAbs(client.url) \/ r.transport
          /\ resp' = [resp EXCEPT ![p] = r]
    /\ pc' = [pc EXCEPT ![p] = "pk_parse"]
    /\ UNCHANGED <<account, origin, mutex, client, call, gate, reqs, result, unlockedOnce, ext>>

\* The body is decoded and PublicKey() returns.
PkReturn(p) ==
    /\ Running /\ pc[p] = "pk_parse"
    /\ result' = [result EXCEPT ![p] = ParsePublicKeyResponse(resp[p])]
    /\ fetched' = IF fetched = NilKey THEN ParsePublicKeyResponse(resp[p]).key ELSE fetched
    /\ pc' = [pc EXCEPT ![p] = "returned"]
    /\ UNCHANGED <<account, origin, mutex, client, call, gate, reqs, resp, unlockedOnce>>
    /\ UNCHANGED <<arg, out, wallet, stores, dump, lastOp>>

\* ------------------------------------------------------ account.MarshalJSON
\* Faulty variant: a serialization that writes the version as text.
MarshalJSONVersionText(a) ==
    [f \in {"uuid", "name", "pubkey", "version", "keyService"} |->
        CASE f = "uuid" -> Str(a.id)
          [] f = "name" -> Str(a.name)
          [] f = "pubkey" -> Str(Hex(a.publicKey))
          [] f = "version" -> Str("4")
          [] OTHER -> Str(URLString(a.keyService.url))]

\* account.MarshalJSON: uuid, name, the key in hex, the version as a number
\* and the URL of the client.
MarshalJSON(a) ==
    [f \in {"uuid", "name", "pubkey", "version", "keyService"} |->
        CASE f = "uuid" -> Str(a.id)
          [] f = "name" -> Str(a.name)
          [] f = "pubkey" -> Str(Hex(a.publicKey))
          [] f = "version" -> Num(2 * a.version)
          [] OTHER -> Str(URLString(a.keyService.url))]

\* ---------------------------------------------- account records to decode
\* A record is put together from one choice per field: present and good,
\* absent, of the wrong JSON type, or of the right type and a bad value.
RecordShapes ==
    [id : {"uuid", "legacy", "missing", "mistyped", "bad"},
     name : {"good", "missing", "mistyped"},
     pubkey : {"good", "missing", "mistyped", "nothex", "short"},
     version : {"4", "4.5", "3", "5", "missing", "mistyped"},
     keyService : {"absolute", "missing", "mistyped", "relative", "unparsable", "empty"}]

ShapeValue(sh, f) ==
    CASE f \in {"uuid", "id"} ->
            (CASE sh.id = "mistyped" -> Num(14)
               [] sh.id = "bad" -> Str("bad")
               [] OTHER -> Str(GoodUUID))
      [] f = "name" -> IF sh.name = "mistyped" THEN Num(2) ELSE Str("test account")
      [] f = "pubkey" ->
            (CASE sh.pubkey = "mistyped" -> Bool("true")
               [] sh.pubkey = "nothex" -> Str(<<"z", "z">>)
               [] sh.pubkey = "short" -> Str(Hex(<<1>>))
               [] OTHER -> Str(Hex(<<169, 154>>)))
      [] f = "version" ->
            (CASE sh.version = "4" -> Num(8)
               [] sh.version = "4.5" -> Num(9)
               [] sh.version = "3" -> Num(6)
               [] sh.version = "5" -> Num(10)
               [] OTHER -> Str("4"))
      [] OTHER ->
            (CASE sh.keyService = "absolute" -> Str(GoodURL)
               [] sh.keyService = "mistyped" -> Bool("true")
               [] sh.keyService = "relative" -> Str("localhost")
               [] sh.keyService = "unparsable" -> Str("%bad%")
               [] OTHER -> Str(""))

RecordOf(sh) ==
    [f \in
        (IF sh.id \in {"uuid", "mistyped", "bad"} THEN {"uuid"}
         ELSE IF sh.id = "legacy" THEN {"id"} ELSE {})
        \cup (IF sh.name = "missing" THEN {} ELSE {"name"})
        \cup (IF sh.pubkey = "missing" THEN {} ELSE {"pubkey"})
        \cup (IF sh.version = "missing" THEN {} ELSE {"version"})
        \cup (IF sh.keyService = "missing" THEN {} ELSE {"keyService"})
     |-> ShapeValue(sh, f)]

\* ------------------------------------------------------------------- wallet
MaxAccounts == 3

WalletUUID == "7603a428-999c-49d0-8241-ddfd63ee143d"

AccountNames == {"Account 1", "Account 2", "Account 3"}

Header(w) == [id |-> w.id, name |-> w.name, nextaccount |-> w.nextaccount]

\* The store with the header of wallet w written, in place of an older one.
StoreWallet(st, w) ==
    [st EXCEPT !.wallets = {h \in @ : h.id # w.id} \cup {Header(w)}]

\* Store.StoreAccount(walletID, accountID, bytes)
StoreAccount(st, a) == [st EXCEPT !.accounts = @ \cup {a}]

\* The accounts of a wallet, as its store lists them.
AccountsOf(st, id) == {a \in st.accounts : a.wallet = id}

AccountIDs(st, id) == {a.id : a \in AccountsOf(st, id)}

Holds(st, id) == \E h \in st.wallets : h.id = id

\* CreateWallet(name, store, encryptor, keyServiceURL)
CreateWallet ==
    /\ wallet = NoWallet
    /\ wallet' = [NoWallet EXCEPT !.id = WalletUUID, !.name = "test wallet", !.home = 1]
    /\ stores' = [stores EXCEPT ![1] = StoreWallet(@, wallet')]
    /\ lastOp' = [NoOp EXCEPT !.op = "CreateWallet", !.store = 1]
    /\ UNCHANGED <<account, origin, mutex, client, pc, locals, unlockedOnce>>
    /\ UNCHANGED <<fetched, arg, out, dump>>

\* Faulty variant: a CreateAccount that does not advance the index.
CreateAccountKeepsIndex(w, st, name, key, fault) ==
    IF \E a \in AccountsOf(st, w.id) : a.name = name
    THEN [err |-> "account already exists", w |-> w, st |-> st]
    ELSE IF fault # "" THEN [err |-> fault, w |-> w, st |-> st]
    ELSE LET a == [wallet |-> w.id, id |-> w.uuids + 1, name |-> name,
                   index |-> w.nextaccount, publicKey |-> key]
             v == [w EXCEPT !.uuids = @ + 1]
         IN [err |-> "", w |-> v, st |-> StoreWallet(StoreAccount(st, a), v)]

\* Wallet.CreateAccount(name, passphrase): a used name is refused; the next
\* index is allocated, the key service is asked for a key, the account is
\* built and stored, the index advances.  fault: a failure of the key service
\* or of the store, after which nothing has changed.
WalletCreateAccount(w, st, name, key, fault) ==
    IF \E a \in AccountsOf(st, w.id) : a.name = name
    THEN [err |-> "account already exists", w |-> w, st |-> st]
    ELSE IF fault # "" THEN [err |-> fault, w |-> w, st |-> st]
    ELSE LET a == [wallet |-> w.id, id |-> w.uuids + 1, name |-> name,
                   index |-> w.nextaccount, publicKey |-> key]
             v == [w EXCEPT !.nextaccount = @ + 1, !.uuids = @ + 1]
         IN [err |-> "", w |-> v, st |-> StoreWallet(StoreAccount(st, a), v)]

CreateWalletAccount ==
    /\ wallet # NoWallet /\ wallet.nextaccount < MaxAccounts
    /\ \E name \in AccountNames, key \in PubKeys, fault \in {"", "key service", "store"} :
          LET r == WalletCreateAccount(wallet, stores[wallet.home], name, key, fault)
          IN /\ wallet' = r.w
             /\ stores' = [stores EXCEPT ![wallet.home] = r.st]
             /\ lastOp' = [NoOp EXCEPT !.op = "CreateAccount", !.name = name,
                                       !.store = wallet.home, !.err = r.err,
                                       !.before = stores[wallet.home], !.after = r.st]
    /\ UNCHANGED <<account, origin, mutex, client, pc, locals, unlockedOnce>>
    /\ UNCHANGED <<fetched, arg, out, dump>>

\* Encryptor.Encrypt and Decrypt: only the passphrase that sealed opens.
Encrypt(data, pass) == [sealed |-> TRUE, data |-> data, pass |-> pass]

Decrypt(d, pass) ==
    IF d.sealed /\ d.pass = pass THEN [err |-> "", data |-> d.data]
    ELSE [err |-> "decryption failed", data |-> NoBundle]

\* Wallet.Export(passphrase): the header and every account of the wallet,
\* encrypted under the passphrase.
Export(w, st, pass) ==
    Encrypt([wallet |-> Header(w), accounts |-> AccountsOf(st, w.id)], pass)

ExportWallet ==
    /\ wallet # NoWallet
    /\ \E pass \in Passphrases :
          /\ dump' = Export(wallet, stores[wallet.home], pass)
          /\ lastOp' = [NoOp EXCEPT !.op = "Export", !.pass = pass, !.store = wallet.home,
                                    !.exported = AccountIDs(stores[wallet.home], wallet.id)]
    /\ UNCHANGED <<account, origin, mutex, client, pc, locals, unlockedOnce>>
    /\ UNCHANGED <<fetched, arg, out, wallet, stores>>

RECURSIVE StoreAll(_, _)
StoreAll(st, as) ==
    IF as = {} THEN st
    ELSE LET a == CHOOSE x \in as : TRUE IN StoreAll(StoreAccount(st, a), as \ {a})

\* Faulty variant: an Import that adds to a wallet the store already holds.
ImportMerges(d, pass, st) ==
    LET dec == Decrypt(d, pass)
    IN IF dec.err # "" THEN [err |-> dec.err, st |-> st]
       ELSE [err |-> "",
             st |-> StoreAll([st EXCEPT !.wallets =
                                {h \in @ : h.id # dec.data.wallet.id} \cup {dec.data.wallet}],
                             dec.data.accounts)]

\* Faulty variant: an Import that stores the header and no account.
ImportHeaderOnly(d, pass, st) ==
    LET dec == Decrypt(d, pass)
    IN IF dec.err # "" THEN [err |-> dec.err, st |-> st]
       ELSE IF Holds(st, dec.data.wallet.id) THEN [err |-> "wallet already exists", st |-> st]
       ELSE [err |-> "", st |-> [st EXCEPT !.wallets = @ \cup {dec.data.wallet}]]

\* Import(dump, passphrase, store, encryptor): the bundle is decrypted; a
\* wallet of that UUID in the store is an error; otherwise the wallet and
\* each of its accounts are stored.
Import(d, pass, st) ==
    LET dec == Decrypt(d, pass)
    IN IF dec.err # "" THEN [err |-> dec.err, st |-> st]
       ELSE IF Holds(st, dec.data.wallet.id) THEN [err |-> "wallet already exists", st |-> st]
       ELSE [err |-> "",
             st |-> StoreAll([st EXCEPT !.wallets = @ \cup {dec.data.wallet}],
                             dec.data.accounts)]

ImportDump ==
    /\ dump.sealed
    /\ \E s \in StoreIds, pass \in Passphrases :
          LET r == Import(dump, pass, stores[s])
          IN /\ stores' = [stores EXCEPT ![s] = r.st]
             /\ lastOp' = [NoOp EXCEPT !.op = "Import", !.store = s, !.pass = pass,
                                       !.held = Holds(stores[s], dump.data.wallet.id),
                                       !.err = r.err, !.before = stores[s], !.after = r.st,
                                       !.ids = IF r.err = ""
                                               THEN AccountIDs(r.st, dump.data.wallet.id)
                                               ELSE {},
                                       !.exported = {a.id : a \in dump.data.accounts}]
    /\ UNCHANGED <<account, origin, mutex, client, pc, locals, unlockedOnce>>
    /\ UNCHANGED <<fetched, arg, out, wallet, dump>>

\* ------------------------------------------------------------ wallet header
Obj(s) == [t |-> "object", s |-> s, half |-> 0]

WalletType == "multi-party"

NewWalletHeader ==
    [id |-> "", name |-> "", crypto |-> "", nextaccount |-> 0, type |-> "", version |-> 0,
     keyService |-> NoClient]

HeaderShapes ==
    [id : {"uuid", "legacy", "missing", "mistyped", "bad"},
     name : {"good", "missing", "mistyped"},
     crypto : {"good", "missing", "mistyped"},
     nextaccount : {"good", "missing", "mistyped"},
     type : {"good", "missing", "mistyped", "hd"},
     version : {"good", "missing", "mistyped"},
     keyService : {"good", "missing", "mistyped", "nourl"}]

HeaderValue(sh, f) ==
    CASE f \in {"uuid", "id"} ->
            (CASE sh.id = "mistyped" -> Num(14)
               [] sh.id = "bad" -> Str("bad")
               [] OTHER -> Str(WalletUUID))
      [] f = "name" -> IF sh.name = "mistyped" THEN Num(2) ELSE Str("mpc wallet")
      [] f = "crypto" -> IF sh.crypto = "mistyped" THEN Str("foo") ELSE Obj("crypto")
      [] f = "nextaccount" -> IF sh.nextaccount = "mistyped" THEN Str("2") ELSE Num(4)
      [] f = "type" ->
            (CASE sh.type = "mistyped" -> Num(14)
               [] sh.type = "hd" -> Str("hd")
               [] OTHER -> Str(WalletType))
      [] f = "version" -> IF sh.version = "mistyped" THEN Str("1") ELSE Num(2)
      [] OTHER ->
            (CASE sh.keyService = "mistyped" -> Str("bad")
               [] sh.keyService = "nourl" -> Obj("empty")
               [] OTHER -> Obj("binding"))

HeaderOf(sh) ==
    [f \in
        (IF sh.id \in {"uuid", "mistyped", "bad"} THEN {"uuid"}
         ELSE IF sh.id = "legacy" THEN {"id"} ELSE {})
        \cup {f \in {"name", "crypto", "nextaccount", "type", "version", "keyService"} :
                sh[f] # "missing"}
     |-> HeaderValue(sh, f)]

\* One field of the header: absent, of the wrong type, of a bad value, or
\* taken over.  The keyService binding is handed to keyService.UnmarshalJSON,
\* which wants an object with a url.
HeaderField(w, v, f) ==
    LET g == IF f = "uuid" /\ ~Has(v, "uuid") THEN "id" ELSE f
        what == CASE f = "uuid" -> "ID" [] f = "nextaccount" -> "next account" [] OTHER -> f
        type == CASE f \in {"uuid", "name", "type"} -> "string"
                  [] f \in {"nextaccount", "version"} -> "number"
                  [] OTHER -> "object"
    IN IF ~Has(v, g) THEN [err |-> "wallet " \o what \o " missing", w |-> w]
       ELSE IF v[g].t # type
            THEN [err |-> IF f = "keyService"
                          THEN "json: cannot unmarshal string into Go value"
                          ELSE "wallet " \o what \o " invalid",
                  w |-> w]
       ELSE CASE f = "uuid" ->
                   IF v[g].s # WalletUUID THEN [err |-> "invalid UUID length", w |-> w]
                   ELSE [err |-> "", w |-> [w EXCEPT !.id = v[g].s]]
              [] f = "name" -> [err |-> "", w |-> [w EXCEPT !.name = v[g].s]]
              [] f = "crypto" -> [err |-> "", w |-> [w EXCEPT !.crypto = v[g].s]]
              [] f = "nextaccount" ->
                   [err |-> "", w |-> [w EXCEPT !.nextaccount = Uint(v[g].half)]]
              [] f = "type" ->
                   IF v[g].s # WalletType
                   THEN [err |-> "wallet type \"" \o v[g].s \o "\" unexpected", w |-> w]
                   ELSE [err |-> "", w |-> [w EXCEPT !.type = v[g].s]]
              [] f = "version" -> [err |-> "", w |-> [w EXCEPT !.version = Uint(v[g].half)]]
              [] OTHER ->
                   IF v[g].s = "empty" THEN [err |-> "keyService url missing", w |-> w]
                   ELSE [err |-> "",
                         w |-> [w EXCEPT !.keyService =
                                   keyServiceUnmarshal(GoodURL, <<169, 154>>, 1).ks]]

\* Faulty variant: a header decoder that looks at nextaccount before crypto.
UnmarshalWalletNextAccountFirst(v) ==
    LET r1 == HeaderField(NewWalletHeader, v, "uuid")
        r2 == HeaderField(r1.w, v, "name")
        r3 == HeaderField(r2.w, v, "nextaccount")
        r4 == HeaderField(r3.w, v, "crypto")
        r5 == HeaderField(r4.w, v, "type")
        r6 == HeaderField(r5.w, v, "version")
        r7 == HeaderField(r6.w, v, "keyService")
    IN IF r1.err # "" THEN r1
       ELSE IF r2.err # "" THEN r2
       ELSE IF r3.err # "" THEN r3
       ELSE IF r4.err # "" THEN r4
       ELSE IF r5.err # "" THEN r5
       ELSE IF r6.err # "" THEN r6
       ELSE r7

\* wallet.UnmarshalJSON: uuid (else the legacy id), name, crypto, nextaccount,
\* type, version, keyService, the first defect reported.
UnmarshalWallet(v) ==
    LET r1 == HeaderField(NewWalletHeader, v, "uuid")
        r2 == HeaderField(r1.w, v, "name")
        r3 == HeaderField(r2.w, v, "crypto")
        r4 == HeaderField(r3.w, v, "nextaccount")
        r5 == HeaderField(r4.w, v, "type")
        r6 == HeaderField(r5.w, v, "version")
        r7 == HeaderField(r6.w, v, "keyService")
    IN IF r1.err # "" THEN r1
       ELSE IF r2.err # "" THEN r2
       ELSE IF r3.err # "" THEN r3
       ELSE IF r4.err # "" THEN r4
       ELSE IF r5.err # "" THEN r5
       ELSE IF r6.err # "" THEN r6
       ELSE r7

\* ------------------------------------------------------ account.PrivateKey
\* return nil: the one value the method returns is nil, and no error is made.
CallPrivateKey(p) ==
    /\ Running /\ origin # "none" /\ pc[p] = "idle"
    /\ call' = [call EXCEPT ![p] = [NoCall EXCEPT !.op = "PrivateKey"]]
    /\ result' = [result EXCEPT ![p] = [NoResult EXCEPT !.key = NilKey]]
    /\ pc' = [pc EXCEPT ![p] = "returned"]
    /\ UNCHANGED <<account, origin, mutex, client, gate, reqs, resp, unlockedOnce, ext>>

\* ---------------------------------------------------- account.storeAccount
\* The wallet's index and the store are the account's collaborators; fault
\* names the ones that fail during the call, and reqs lists the calls made on
\* them.
Collaborators == {"storeAccountsIndex", "StoreAccount"}

CollaboratorCall(c) == [NoReq EXCEPT !.method = c]

CollaboratorError(c) == "failed: " \o c

CallStoreAccount(p) ==
    /\ Running /\ origin # "none" /\ pc[p] = "idle"
    /\ \E fault \in SUBSET Collaborators :
          call' = [call EXCEPT ![p] = [NoCall EXCEPT !.op = "storeAccount", !.fault = fault]]
    /\ pc' = [pc EXCEPT ![p] = "Store_rlock"]
    /\ UNCHANGED <<account, origin, mutex, client, gate, reqs, resp, result, unlockedOnce, ext>>

\* a.mutex.RLock()
StoreRLock(p) ==
    /\ Running /\ pc[p] = "Store_rlock"
    /\ CanRLock(mutex)
    /\ mutex' = RLocked(mutex, p)
    /\ pc' = [pc EXCEPT ![p] = "Store_index"]
    /\ UNCHANGED <<account, origin, client, locals, unlockedOnce, ext>>

\* Faulty variant: a storeAccount that goes on after the index failed.
StoreIndexIgnoresError(p) ==
    /\ Running /\ pc[p] = "Store_index"
    /\ reqs' = [reqs EXCEPT ![p] = Append(@, CollaboratorCall("storeAccountsIndex"))]
    /\ pc' = [pc EXCEPT ![p] = "Store_write"]
    /\ UNCHANGED <<account, origin, mutex, client, call, gate, resp, result, unlockedOnce, ext>>

\* json.Marshal(a), which takes no lock, then storeAccountsIndex(); its error
\* ends the call.
StoreIndex(p) ==
    /\ Running /\ pc[p] = "Store_index"
    /\ reqs' = [reqs EXCEPT ![p] = Append(@, CollaboratorCall("storeAccountsIndex"))]
    /\ IF "storeAccountsIndex" \in call[p].fault
       THEN /\ result' = [result EXCEPT ![p] = Failed(CollaboratorError("storeAccountsIndex"))]
            /\ pc' = [pc EXCEPT ![p] = "Store_runlock"]
       ELSE /\ pc' = [pc EXCEPT ![p] = "Store_write"]
            /\ UNCHANGED result
    /\ UNCHANGED <<account, origin, mutex, client, call, gate, resp, unlockedOnce, ext>>

\* store.StoreAccount(a.wallet.ID(), a.ID(), data); its error ends the call.
StoreWrite(p) ==
    /\ Running /\ pc[p] = "Store_write"
    /\ reqs' = [reqs EXCEPT ![p] = Append(@, CollaboratorCall("StoreAccount"))]
    /\ IF "StoreAccount" \in call[p].fault
       THEN /\ result' = [result EXCEPT ![p] = Failed(CollaboratorError("StoreAccount"))]
            /\ UNCHANGED stores
       ELSE /\ result' = [result EXCEPT ![p] = NoResult]
            /\ stores' = [stores EXCEPT ![1] =
                              StoreAccount(@, [wallet |-> WalletUUID, id |-> account.id,
                                               data |-> MarshalJSON(account)])]
    /\ pc' = [pc EXCEPT ![p] = "Store_runlock"]
    /\ UNCHANGED <<account, origin, mutex, client, call, gate, resp, unlockedOnce>>
    /\ UNCHANGED <<fetched, arg, out, wallet, dump, lastOp>>

\* defer a.mutex.RUnlock(), then the return.
StoreRUnlock(p) ==
    /\ Running /\ pc[p] = "Store_runlock"
    /\ mutex' = RUnlocked(mutex, p)
    /\ pc' = [pc EXCEPT ![p] = "returned"]
    /\ UNCHANGED <<account, origin, client, locals, unlockedOnce, ext>>

\* ------------------------------------------- the serialization functions
\* Accounts there can be: those a record deserializes to and those a wallet
\* creates.
Accounts ==
    UNION {{deserializeAccount(variant, RecordOf(sh)).a :
              sh \in {x \in RecordShapes : deserializeAccount(variant, RecordOf(x)).err = ""}}
           : variant \in Variants}
    \cup {CreateAccountWith(name, key, ks) :
            name \in AccountNames, key \in PubKeys, ks \in WalletClients}

CodecInputs ==
    {[kind |-> "url", variant |-> variant, raw |-> raw, shape |-> NoShape, a |-> newAccount]
        : variant \in Variants, raw \in RawURLs}
    \cup {[kind |-> "record", variant |-> variant, raw |-> "", shape |-> sh, a |-> newAccount]
            : variant \in Variants, sh \in RecordShapes}
    \cup {[kind |-> "header", variant |-> "cached", raw |-> "", shape |-> sh, a |-> newAccount]
            : sh \in HeaderShapes}
    \cup {[kind |-> "account", variant |-> a.keyService.variant, raw |-> "", shape |-> "",
           a |-> a] : a \in Accounts}

InitCodec ==
    /\ InitProgram
    /\ arg \in CodecInputs
    /\ out = NoOut

\* newKeyService on the text (parsed first, where the constructor takes a URL).
ConstructClient ==
    /\ arg.kind = "url" /\ out = NoOut
    /\ out' = [kind |-> "client", val |-> newKeyService(arg.variant, arg.raw)]
    /\ UNCHANGED <<account, origin, mutex, client, pc, locals, unlockedOnce>>
    /\ UNCHANGED <<fetched, arg, wallet, stores, dump, lastOp>>

\* deserializeAccount on a stored record.
DeserializeRecord ==
    /\ arg.kind = "record" /\ out = NoOut
    /\ out' = [kind |-> "account",
               val |-> deserializeAccount(arg.variant, RecordOf(arg.shape))]
    /\ UNCHANGED <<account, origin, mutex, client, pc, locals, unlockedOnce>>
    /\ UNCHANGED <<fetched, arg, wallet, stores, dump, lastOp>>

\* json.Marshal of an account.
SerializeAccount ==
    /\ arg.kind = "account" /\ out = NoOut
    /\ out' = [kind |-> "json", val |-> MarshalJSON(arg.a)]
    /\ UNCHANGED <<account, origin, mutex, client, pc, locals, unlockedOnce>>
    /\ UNCHANGED <<fetched, arg, wallet, stores, dump, lastOp>>

\* deserializeAccount on what json.Marshal wrote.
DeserializeSerialized ==
    /\ arg.kind = "account" /\ out.kind = "json"
    /\ out' = [kind |-> "roundtrip", val |-> deserializeAccount(arg.variant, out.val)]
    /\ UNCHANGED <<account, origin, mutex, client, pc, locals, unlockedOnce>>
    /\ UNCHANGED <<fetched, arg, wallet, stores, dump, lastOp>>

\* json.Unmarshal of a wallet header.
DeserializeHeader ==
    /\ arg.kind = "header" /\ out = NoOut
    /\ out' = [kind |-> "wallet", val |-> UnmarshalWallet(HeaderOf(arg.shape))]
    /\ UNCHANGED <<account, origin, mutex, client, pc, locals, unlockedOnce>>
    /\ UNCHANGED <<fetched, arg, wallet, stores, dump, lastOp>>

\* ------------------------------------------------------------ specifications
Next ==
    \/ CreateAccount
    \/ DeserializeAccount
    \/ \E p \in Procs :
          \/ CallLock(p) \/ LockAnnounce(p) \/ LockAcquire(p) \/ LockWrite(p)
          \/ LockRelease(p)
          \/ CallUnlock(p) \/ UnlockAnnounce(p) \/ UnlockAcquire(p) \/ UnlockWrite(p)
          \/ UnlockRelease(p)
          \/ CallIsUnlocked(p) \/ IsUnlockedRead(p)
          \/ CallSign(p) \/ SignRLock(p) \/ SignGate(p) \/ SignRUnlock(p)
          \/ KsPost(p) \/ ServiceRespond(p) \/ KsReturn(p)
          \/ Finish(p)

Spec == Init /\ [][Next]_vars

\* Callers that use a key-service client directly, without an account.
NextClient ==
    \/ NewClient
    \/ \E p \in Procs :
          \/ CallClientSign(p)
          \/ KsPost(p) \/ ServiceRespond(p) \/ KsReturn(p)
          \/ CallPublicKey(p) \/ PkCached(p) \/ PkGet(p) \/ PkRespond(p) \/ PkReturn(p)
          \/ Finish(p)

SpecClient == Init /\ [][NextClient]_vars

\* A wallet, its store and a second store.
NextWallet ==
    \/ CreateWallet
    \/ CreateWalletAccount
    \/ ExportWallet
    \/ ImportDump

SpecWallet == Init /\ [][NextWallet]_vars

\* The constructor and the (de)serialization functions, applied to one input.
NextCodec ==
    \/ ConstructClient
    \/ DeserializeRecord
    \/ SerializeAccount
    \/ DeserializeSerialized
    \/ DeserializeHeader

SpecCodec == InitCodec /\ [][NextCodec]_vars

\* One created account with callers of every method that takes its lock, of
\* PrivateKey and of storeAccount; a Sign carries the empty payload.
NextAccount ==
    \/ CreateAccount
    \/ \E p \in Procs :
          \/ CallLock(p) \/ LockAnnounce(p) \/ LockAcquire(p) \/ LockWrite(p)
          \/ LockRelease(p)
          \/ CallUnlock(p) \/ UnlockAnnounce(p) \/ UnlockAcquire(p) \/ UnlockWrite(p)
          \/ UnlockRelease(p)
          \/ CallSign(p) /\ call'[p].data = <<>> /\ call'[p].domain = 0
          \/ SignRLock(p) \/ SignGate(p) \/ SignRUnlock(p)
          \/ KsPost(p) \/ ServiceRespond(p) \/ KsReturn(p)
          \/ CallPrivateKey(p)
          \/ CallStoreAccount(p) \/ StoreRLock(p) \/ StoreIndex(p) \/ StoreWrite(p)
          \/ StoreRUnlock(p)
          \/ Finish(p)

SpecAccount == Init /\ [][NextAccount]_vars

\* A caller that is inside a call goes on with it, and the key service
\* answers every request. The writers' mutex of sync.RWMutex hands itself to
\* a waiter that has waited long enough, whoever else asks for it, so a Lock
\* or Unlock that asks again and again gets it. Nothing makes a caller start
\* or end a call.
Scheduling ==
    \A p \in Procs :
        /\ SF_vars(LockAnnounce(p) \/ UnlockAnnounce(p))
        /\ WF_vars(LockAcquire(p) \/ LockWrite(p) \/ LockRelease(p)
                      \/ UnlockAcquire(p) \/ UnlockWrite(p) \/ UnlockRelease(p))
        /\ WF_vars(SignGate(p) \/ SignRUnlock(p) \/ KsPost(p) \/ KsReturn(p)
                      \/ StoreIndex(p) \/ StoreWrite(p) \/ StoreRUnlock(p))
        /\ WF_vars(ServiceRespond(p))

FairAccount == SpecAccount /\ Scheduling

\* ------------------------------------------------------------------- claims
SignHolding == {"ks_Sign", "ks_await", "ks_parse", "Sign_runlock"}

WriterHolding == {"Lock_write", "Lock_release", "Unlock_write", "Unlock_release"}

WriterPending == {"Lock_announce", "Lock_wait", "Unlock_announce", "Unlock_wait"} \cup WriterHolding

LockedError == Failed("cannot sign when account is locked")

\* C1: a Sign whose gate check finds the account locked sends no request and
\* returns the locked error and no signature; a request is only ever sent by
\* a Sign whose gate check found the account unlocked.
C1_LockedSignFails ==
    \A p \in Procs :
        call[p].op = "Sign" =>
            /\ gate[p] = "locked" =>
                  /\ reqs[p] = <<>>
                  /\ pc[p] \in {"Sign_runlock", "returned"} /\ result[p] = LockedError
            /\ pc[p] \in SignHolding /\ ~account.unlocked => gate[p] = "locked"
            /\ reqs[p] # <<>> => gate[p] = "unlocked"

C1_Witness ==
    \E p \in Procs :
        /\ call[p].op = "Sign" /\ pc[p] = "returned" /\ gate[p] = "locked"
        /\ unlockedOnce
        /\ result[p] = LockedError /\ reqs[p] = <<>>

\* C2: while a Sign is between its gate check and its return it holds the
\* read lock, no Lock or Unlock holds the write lock, the flag has the value
\* the gate check read, and what the Sign is about to return is what the
\* client made of the key service's answer.
C2_SignHoldsReadLock ==
    \A p \in Procs :
        call[p].op = "Sign" /\ pc[p] \in SignHolding =>
            /\ p \in mutex.readers
            /\ ~mutex.writing
            /\ \A q \in Procs : pc[q] \notin WriterHolding
            /\ account.unlocked = (gate[p] = "unlocked")
            /\ pc[p] = "Sign_runlock" /\ gate[p] = "unlocked" =>
                  result[p] = SignResult(account.keyService, resp[p])

C2_Witness ==
    \E p, q \in Procs :
        /\ call[p].op = "Sign" /\ pc[p] = "ks_parse"
        /\ pc[q] = "Lock_wait" /\ mutex.w = q
        /\ account.unlocked

\* C3: a signature that Sign(P, D) returns on an unlocked account, after the
\* key service answered 200 with its signature, verifies under
\* Verify(P, the account's public key, D).
C3_SignVerifies ==
    \A p \in Procs :
        /\ call[p].op = "Sign" /\ pc[p] = "returned" /\ result[p].err = ""
        /\ resp[p].status = 200 /\ resp[p].sign = "sig"
        => Verify(result[p].sig, call[p].data, account.publicKey, call[p].domain)

\* C4: every request an account's Sign(data, domainTag) sends carries payload
\* data and domain domainTag.
C4_RequestCarriesArgs ==
    \A p \in Procs :
        call[p].op = "Sign" =>
            \A i \in 1..Len(reqs[p]) :
                /\ reqs[p][i].payload = call[p].data
                /\ reqs[p][i].domain = call[p].domain

\* C5: every request an account's Sign sends is posted to the path that is
\* the hex encoding of that account's public key.
C5_PathIsAccountKey ==
    \A p \in Procs :
        call[p].op = "Sign" =>
            \A i \in 1..Len(reqs[p]) : reqs[p][i].path = KeyPath(account.publicKey)

\* C6: whoever is about to read the lock flag holds the read side of the
\* account's mutex, and whoever is about to write it holds the write side.
C6_FlagAccessUnderLock ==
    \A p \in Procs :
        /\ pc[p] \in {"Sign_gate", "IsUnlocked_read"} => p \in mutex.readers
        /\ pc[p] \in {"Lock_write", "Unlock_write"} => mutex.w = p /\ mutex.writing

\* C7: while the program runs and no Lock or Unlock is pending, a Sign that
\* asks for the read lock gets it, whoever else is signing.
C7_SignsDoNotBlock ==
    Running /\ (\A q \in Procs : pc[q] \notin WriterPending) =>
        \A p \in Procs : pc[p] = "Sign_rlock" => ENABLED SignRLock(p)

C7_Witness ==
    \E p, q \in Procs :
        /\ p # q
        /\ call[p].op = "Sign" /\ pc[p] = "ks_await"
        /\ call[q].op = "Sign" /\ pc[q] = "ks_await"

\* C8: until some Unlock has run, an account that was created or deserialized
\* is locked and every Sign on it ends with the locked error and no request.
C8_InitiallyLocked ==
    origin # "none" /\ ~unlockedOnce =>
        /\ ~account.unlocked
        /\ \A p \in Procs :
              call[p].op = "Sign" /\ pc[p] \in {"Sign_runlock", "returned"} =>
                  result[p] = LockedError /\ reqs[p] = <<>>

C8_Witness ==
    /\ origin = "deserialized" /\ ~unlockedOnce
    /\ \E p \in Procs :
          call[p].op = "Sign" /\ pc[p] = "returned" /\ result[p] = LockedError

\* C9: an Unlock that has set the flag, whatever its passphrase, leaves the
\* account unlocked while it still holds the lock, and returns no error.
C9_UnlockAlwaysSucceeds ==
    \A p \in Procs :
        call[p].op = "Unlock" =>
            /\ pc[p] = "Unlock_release" => account.unlocked /\ mutex.w = p
            /\ pc[p] \in {"Unlock_release", "returned"} => result[p] = NoResult /\ unlockedOnce

C9_Witness ==
    \E p \in Procs :
        /\ call[p].op = "Unlock" /\ call[p].pass = <<>>
        /\ pc[p] = "returned" /\ result[p].err = ""
        /\ account.unlocked

C11_PublicKeyFetchedOnce ==
    \A p \in Procs :
        call[p].op = "PublicKey" /\ pc[p] # "pk_call" =>
            /\ call[p].cached = NilKey /\ client.publicKey = NilKey =>
                  /\ pc[p] \in {"pk_await", "pk_parse", "returned"}
                  /\ Len(reqs[p]) = 1
                  /\ reqs[p][1].method = "GET" /\ reqs[p][1].path = RootPath
            /\ call[p].cached # NilKey =>
                  /\ reqs[p] = <<>>
                  /\ pc[p] = "returned"
                  /\ result[p] = [NoResult EXCEPT !.key = call[p].cached]

\* C12: a call of the client's Sign that was answered with a status other than
\* 200, with a body that is not JSON, or with an absent or empty "sign" returns
\* an error and no signature, whatever else the body holds.
C12_SignFailsOnBadAnswer ==
    \A p \in Procs :
        /\ call[p].op = "ClientSign" /\ pc[p] = "returned" /\ ~resp[p].transport
        /\ resp[p].status # 200 \/ ~resp[p].json \/ resp[p].sign = "empty"
        => result[p].err # "" /\ result[p].sig = NoSig

\* C13: an Import into a store that already holds a wallet of the dump's UUID
\* fails and leaves that store as it was.
C13_ImportExistingFails ==
    lastOp.op = "Import" /\ lastOp.held =>
        lastOp.err # "" /\ lastOp.after = lastOp.before

C13_Witness ==
    /\ lastOp.op = "Import" /\ lastOp.held /\ lastOp.store = 2
    /\ lastOp.pass = dump.pass
    /\ lastOp.err = "wallet already exists"
    /\ AccountIDs(lastOp.before, WalletUUID) # {}
    /\ lastOp.exported # AccountIDs(lastOp.before, WalletUUID)

\* C14: an Import with the passphrase of the Export, into a store that does
\* not hold the wallet, succeeds, and the wallet it yields has every account
\* ID the wallet had when it was exported.
C14_ImportHasExportedAccounts ==
    lastOp.op = "Import" /\ ~lastOp.held /\ lastOp.pass = dump.pass =>
        /\ lastOp.err = ""
        /\ lastOp.exported \subseteq lastOp.ids
        /\ lastOp.ids = AccountIDs(stores[lastOp.store], WalletUUID)

C14_Witness ==
    /\ lastOp.op = "Import" /\ ~lastOp.held /\ lastOp.pass = dump.pass
    /\ lastOp.err = "" /\ Cardinality(lastOp.ids) = 2

\* C15: no step lowers the wallet's next account index, and the accounts the
\* wallet has created all have different indices, each below the next index.
UniqueIndices ==
    \A a, b \in AccountsOf(stores[1], WalletUUID) :
        /\ a.index = b.index => a = b
        /\ a.index < wallet.nextaccount

C15_IndexMonotonicUnique ==
    [][wallet'.nextaccount >= wallet.nextaccount /\ UniqueIndices']_vars

C15_Witness ==
    /\ lastOp.op = "CreateAccount" /\ lastOp.err = "store"
    /\ Cardinality(AccountsOf(stores[1], WalletUUID)) = 2
    /\ wallet.nextaccount = 2

\* The first text of a sequence that is not empty.
RECURSIVE FirstOf(_)
FirstOf(texts) ==
    IF texts = <<>> THEN ""
    ELSE IF Head(texts) # "" THEN Head(texts) ELSE FirstOf(Tail(texts))

\* What is wrong with one field of a header, going by how the header was put
\* together.
HeaderDefect(sh, f) ==
    CASE f = "id" ->
            (CASE sh.id = "missing" -> "wallet ID missing"
               [] sh.id = "mistyped" -> "wallet ID invalid"
               [] sh.id = "bad" -> "invalid UUID length"
               [] OTHER -> "")
      [] f = "nextaccount" ->
            (CASE sh.nextaccount = "missing" -> "wallet next account missing"
               [] sh.nextaccount = "mistyped" -> "wallet next account invalid"
               [] OTHER -> "")
      [] f = "type" ->
            (CASE sh.type = "missing" -> "wallet type missing"
               [] sh.type = "mistyped" -> "wallet type invalid"
               [] sh.type = "hd" -> "wallet type \"hd\" unexpected"
               [] OTHER -> "")
      [] f = "keyService" ->
            (CASE sh.keyService = "missing" -> "wallet keyService missing"
               [] sh.keyService = "mistyped" -> "json: cannot unmarshal string into Go value"
               [] sh.keyService = "nourl" -> "keyService url missing"
               [] OTHER -> "")
      [] OTHER ->
            (CASE sh[f] = "missing" -> "wallet " \o f \o " missing"
               [] sh[f] = "mistyped" -> "wallet " \o f \o " invalid"
               [] OTHER -> "")

HeaderOrder == <<"id", "name", "crypto", "nextaccount", "type", "version", "keyService">>

\* C16: decoding a wallet header reports the defect of the first defective
\* field in the order uuid, name, crypto, nextaccount, type, version,
\* keyService, and succeeds when no field is defective.
C16_HeaderFirstDefect ==
    arg.kind = "header" /\ out.kind = "wallet" =>
        out.val.err = FirstOf([i \in 1..Len(HeaderOrder) |-> HeaderDefect(arg.shape, HeaderOrder[i])])

C16_Witness ==
    /\ arg.kind = "header" /\ out.kind = "wallet"
    /\ arg.shape.crypto = "missing" /\ arg.shape.nextaccount = "mistyped"
    /\ arg.shape.keyService = "missing"
    /\ out.val.err = "wallet crypto missing"

\* C17: an account of version 4, serialized and then deserialized, comes back
\* without error and with the same id, name, public key and version.
C17_RoundTrip ==
    arg.kind = "account" /\ out.kind = "roundtrip" /\ arg.a.version = KeystoreVersion =>
        /\ out.val.err = ""
        /\ out.val.a.id = arg.a.id
        /\ out.val.a.name = arg.a.name
        /\ out.val.a.publicKey = arg.a.publicKey
        /\ out.val.a.version = arg.a.version

C17_Witness ==
    /\ arg.kind = "account" /\ out.kind = "roundtrip"
    /\ arg.a.version = KeystoreVersion /\ arg.a.name = "Account 2"
    /\ arg.a.keyService.publicKey # NilKey
    /\ out.val.err = "" /\ out.val.a.publicKey = arg.a.publicKey

\* A record whose id, name and pubkey are in order.
GoodUpToVersion(sh) ==
    sh.id \in {"uuid", "legacy"} /\ sh.name = "good" /\ sh.pubkey = "good"

\* C18: a record with a numeric version other than 4 (and nothing wrong before
\* the version) fails with "unsupported keystore version", and every account
\* a record deserializes to has version 4.
C18_OnlyVersionFour ==
    arg.kind = "record" /\ out.kind = "account" =>
        /\ GoodUpToVersion(arg.shape) /\ arg.shape.version \in {"4.5", "3", "5"} =>
              out.val.err = "unsupported keystore version"
        /\ out.val.err = "" => out.val.a.version = KeystoreVersion

\* What is wrong with one field of an account record, going by how the record
\* was put together; for keyService only its absence and its type.
RecordDefect(sh, f) ==
    CASE f = "id" ->
            (CASE sh.id = "missing" -> "account ID missing"
               [] sh.id = "mistyped" -> "account ID invalid"
               [] sh.id = "bad" -> "invalid UUID length"
               [] OTHER -> "")
      [] f = "pubkey" ->
            (CASE sh.pubkey = "missing" -> "account pubkey missing"
               [] sh.pubkey = "mistyped" -> "account pubkey invalid"
               [] sh.pubkey = "nothex" -> "encoding/hex"
               [] sh.pubkey = "short" -> "public key must be 48 bytes"
               [] OTHER -> "")
      [] f = "version" ->
            (CASE sh.version = "missing" -> "account version missing"
               [] sh.version = "mistyped" -> "account version invalid"
               [] sh.version = "4" -> ""
               [] OTHER -> "unsupported keystore version")
      [] OTHER ->
            (CASE sh[f] = "missing" -> "account " \o f \o " missing"
               [] sh[f] = "mistyped" -> "account " \o f \o " invalid"
               [] OTHER -> "")

RecordOrder == <<"id", "name", "pubkey", "version">>

\* C19: decoding an account record reports the defect of the first defective
\* field in the order id, name, pubkey, version (a version other than 4
\* included); keyService is looked at only when none of these is defective.
C19_RecordFirstDefect ==
    arg.kind = "record" /\ out.kind = "account" =>
        LET early == FirstOf([i \in 1..Len(RecordOrder) |->
                                RecordDefect(arg.shape, RecordOrder[i])])
        IN IF early # "" THEN out.val.err = early
           ELSE /\ arg.shape.keyService \in {"missing", "mistyped"} =>
                      out.val.err = RecordDefect(arg.shape, "keyService")
                /\ arg.shape.keyService = "absolute" => out.val.err = ""

\* C20: for a text that parses as a URL, construction succeeds with the URL
\* unchanged when it is absolute, and fails with the error that names the
\* text when it is not.
C20_AbsoluteURLOnly ==
    arg.kind = "url" /\ out.kind = "client" /\ ParseURL(arg.raw).err = "" =>
        IF IsAbs(ParseURL(arg.raw))
        THEN out.val.err = "" /\ URLString(out.val.ks.url) = arg.raw
        ELSE out.val.err = NotAbsolute(arg.raw) /\ out.val.ks = NoClient

\* C21: a key-service client that exists, however it was built, has an
\* absolute URL.
C21_ClientURLAbsolute ==
    client.variant # "none" => IsAbs(client.url)

\* C22: the write of a Lock() that finds the account locked, and the write of
\* an Unlock() that finds it unlocked, leave the account as it was; after the
\* write of any Lock() the account is locked and after that of any Unlock()
\* it is unlocked, so a repeated call ends where a single one does.
C22_RepeatedLockIsNoOp ==
    [][\A p \in Procs :
          /\ pc[p] = "Lock_write" /\ pc'[p] = "Lock_release"
                => /\ ~account'.unlocked
                   /\ ~account.unlocked => account' = account
          /\ pc[p] = "Unlock_write" /\ pc'[p] = "Unlock_release"
                => /\ account'.unlocked
                   /\ account.unlocked => account' = account]_vars

\* A Lock() has written while another Lock() had returned, on an account that
\* was never unlocked.
C22_Witness ==
    \E p, q \in Procs :
        /\ p # q /\ ~unlockedOnce /\ ~account.unlocked
        /\ call[p].op = "Lock" /\ pc[p] = "Lock_release"
        /\ call[q].op = "Lock" /\ pc[q] = "returned"

\* C23: PrivateKey() reports an error and returns no key material, on every
\* account in every state.
C23_PrivateKeyFails ==
    \A p \in Procs :
        call[p].op = "PrivateKey" /\ pc[p] = "returned"
            => result[p].err # "" /\ result[p].key = NilKey

\* C24: storeAccount calls storeAccountsIndex before StoreAccount; when the
\* index fails the store is not called and the index's error is the result;
\* when the store fails its error is the result.
C24_IndexBeforeRecord ==
    \A p \in Procs :
        call[p].op = "storeAccount" =>
            LET index == CollaboratorCall("storeAccountsIndex")
                write == CollaboratorCall("StoreAccount")
                done == pc[p] \in {"Store_runlock", "returned"}
            IN /\ reqs[p] \in {<<>>, <<index>>, <<index, write>>}
               /\ done /\ "storeAccountsIndex" \in call[p].fault
                     => /\ reqs[p] = <<index>>
                        /\ result[p] = Failed(CollaboratorError("storeAccountsIndex"))
               /\ done /\ call[p].fault = {"StoreAccount"}
                     => /\ reqs[p] = <<index, write>>
                        /\ result[p] = Failed(CollaboratorError("StoreAccount"))
               /\ done /\ call[p].fault = {}
                     => /\ reqs[p] = <<index, write>>
                        /\ result[p] = NoResult
                        /\ stores[1].accounts # {}

\* A storeAccount has returned after its index failed, and the store is
\* still empty.
C24_Witness ==
    \E p \in Procs :
        /\ call[p].op = "storeAccount" /\ pc[p] = "returned"
        /\ "storeAccountsIndex" \in call[p].fault
        /\ stores[1].accounts = {}

\* C25: once the account exists it changes only by the write of a Lock(),
\* which clears the lock flag, or of an Unlock(), which sets it, and by
\* nothing else in them: id, name, public key and key-service binding stay;
\* no step of a Sign, rejected, failed or successful, changes the account.
C25_OnlyLockAndUnlockChangeFlag ==
    [][/\ origin # "none" /\ account' # account
            => \E p \in Procs :
                  /\ pc[p] \in {"Lock_write", "Unlock_write"} /\ pc'[p] # pc[p]
                  /\ account' = [account EXCEPT !.unlocked = (pc[p] = "Unlock_write")]
       /\ \A p \in Procs :
             (call[p].op = "Sign" \/ call'[p].op = "Sign") /\ <<pc[p], call[p]>>' # <<pc[p], call[p]>>
                 => account' = account]_vars

\* A Sign has come back from the key service with an error and the account
\* is unlocked as before.
C25_Witness ==
    \E p \in Procs :
        /\ call[p].op = "Sign" /\ pc[p] = "returned"
        /\ gate[p] = "unlocked" /\ result[p].err # ""
        /\ account.unlocked
        /\ \A q \in Procs \ {p} : pc[q] = "idle" /\ call[q].op = "none"

\* The caller can take a step of the call it is in; the key service's answer
\* to a Sign counts as one.
CanStep(p) ==
    \/ ENABLED LockAnnounce(p) \/ ENABLED LockAcquire(p) \/ ENABLED LockWrite(p)
    \/ ENABLED LockRelease(p)
    \/ ENABLED UnlockAnnounce(p) \/ ENABLED UnlockAcquire(p) \/ ENABLED UnlockWrite(p)
    \/ ENABLED UnlockRelease(p)
    \/ ENABLED SignRLock(p) \/ ENABLED SignGate(p) \/ ENABLED SignRUnlock(p)
    \/ ENABLED KsPost(p) \/ ENABLED ServiceRespond(p) \/ ENABLED KsReturn(p)
    \/ ENABLED StoreRLock(p) \/ ENABLED StoreIndex(p) \/ ENABLED StoreWrite(p)
    \/ ENABLED StoreRUnlock(p)
    \/ ENABLED Finish(p)

Acquiring ==
    {"Lock_announce", "Lock_wait", "Unlock_announce", "Unlock_wait", "Sign_rlock", "Store_rlock"}

HoldsLock(p) == p \in mutex.readers \/ (mutex.w = p /\ mutex.writing)

\* C26: concurrent Sign, Lock, Unlock and storeAccount callers never
\* deadlock: a caller that is acquiring the account's lock does not hold it,
\* a caller that holds it can always take its next step, also while a Lock()
\* or Unlock() waits for the write side, and whenever some caller is inside a
\* call some caller can take a step.
C26_NoDeadlock ==
    /\ \A p \in Procs : pc[p] \in Acquiring => ~HoldsLock(p)
    /\ \A p \in Procs : HoldsLock(p) => CanStep(p)
    /\ (\E p \in Procs : pc[p] # "idle") => \E p \in Procs : CanStep(p)

\* A Lock() waits for the write side while a Sign that has not yet read the
\* flag and a storeAccount hold the read side.
C26_Witness ==
    \E p, q \in Procs :
        /\ pc[p] \in {"Lock_wait", "Unlock_wait"} /\ mutex.w = p
        /\ pc[q] \in {"Sign_gate", "Store_index"} /\ q \in mutex.readers

LockPending == {"Lock_announce", "Lock_wait"}

\* C27: with every key-service call answered, a Lock() or Unlock() that has
\* been called returns, whatever Sign calls arrive meanwhile; and while a
\* Sign stays in its key-service call, a Lock() that waits stays waiting.
C27_LockReturns ==
    /\ \A p \in Procs :
          pc[p] \in WriterPending ~> pc[p] = "returned"
    /\ [][\A p, q \in Procs :
             /\ call[q].op = "Sign" /\ pc[q] = "ks_await" /\ pc'[q] = "ks_await"
             /\ pc[p] \in LockPending
             => pc'[p] \in LockPending]_vars

\* A Lock() waits for the write side while a Sign is in its key-service call.
C27_Witness ==
    \E p, q \in Procs :
        /\ call[p].op = "Lock" /\ pc[p] = "Lock_wait" /\ mutex.w = p
        /\ call[q].op = "Sign" /\ pc[q] = "ks_await" /\ q \in mutex.readers
====
